---- MODULE Spec2Model ----
(***************************************************************************)
(* Model of dhcp_app.py: the option codec (parse_options, build_options),  *)
(* the packet builder (build_reply), the lease pool (LeaseManager) and the *)
(* receive loop of main().                                                 *)
(*                                                                         *)
(* Bytes are integers 0..255 and byte strings are sequences of them.       *)
(* Python's None is the empty sequence and an optional value v is <<v>>.   *)
(* A text string is the sequence of its characters; an IPv4Address is its  *)
(* 32-bit integer.  Time is counted in whole ticks of the clock that       *)
(* time.time() reads.                                                      *)
(***************************************************************************)
EXTENDS Integers, Sequences, FiniteSets, TLC

VARIABLES
    leases,     \* LeaseManager.leases: mac string -> <<ip, expiry>>
    clock,      \* the value time.time() returns now
    last,       \* locals of the loop body for the datagram handled last
    sent,       \* what sock.sendto was given for that datagram: <<>> or <<reply>>
    pc,         \* "recv": waiting in recvfrom; "handled": end of the loop body;
                \* "raised": an exception has left the loop
    hist,       \* results of the allocate calls made so far, in call order
    fresh,      \* every allocate so far: no requested address, a new mac each
    offered,    \* the watched macs whose present lease entry an OFFER has announced
    oin,        \* option codec: the (code, value) list handed to build_options
    owire,      \* option codec: what build_options returned
    oparsed,    \* option codec: what parse_options returned for owire
    ostage,     \* option codec: "idle", "input", "built", "parsed"
    rin,        \* packet builder: the arguments of build_reply
    rout        \* packet builder: <<>> or <<reply bytes>>

vars == <<leases, clock, last, sent, pc, hist, fresh, offered,
          oin, owire, oparsed, ostage, rin, rout>>

serverVars == <<leases, clock, last, sent, pc, hist, fresh, offered>>
codecVars  == <<oin, owire, oparsed, ostage>>
replyVars  == <<rin, rout>>

-----------------------------------------------------------------------------
(* Program constants *)

BOOTREQUEST == 1
BOOTREPLY == 2
DHCPDISCOVER == 1
DHCPREQUEST == 3
DHCPDECLINE == 4
DHCPRELEASE == 7
MAGIC_COOKIE == <<99, 130, 83, 99>>

\* Option codes and reply message types written as literals in main()
OPT_MSG_TYPE == 53
OPT_REQUESTED == 50
OPT_SERVER_ID == 54
OPT_LEASE_TIME == 51
OPT_SUBNET == 1
OPT_ROUTER == 3
OPT_DNS == 6
OPT_END == 255
OPT_PAD == 0
DHCPOFFER == 2
DHCPACK == 5
MIN_DATAGRAM == 240
COOKIE_OFFSET == 236

-----------------------------------------------------------------------------
(* Bounds of the model *)

PoolSize == 2       \* addresses in [pool_start, pool_end]
NumClients == 3     \* distinct client hardware addresses
LeaseTime == 2      \* lease_time_seconds of the configuration
MaxTime == 2        \* the clock stops advancing here
MaxOpts == 2        \* longest option list given to build_options

-----------------------------------------------------------------------------
(* Python values *)

None == <<>>
EmptyDict == [k \in {} |-> <<>>]

Min(a, b) == IF a < b THEN a ELSE b

\* s[a:b] for 0 <= a, 0 <= b: clipped to the sequence, never an error
PySlice(s, a, b) ==
    LET lo == Min(a, Len(s))
        hi == Min(b, Len(s))
    IN  IF hi <= lo THEN <<>> ELSE SubSeq(s, lo + 1, hi)

\* d[k] = v
DictPut(d, k, v) == [x \in (DOMAIN d) \cup {k} |-> IF x = k THEN v ELSE d[x]]

Zeros(n) == [i \in 1..n |-> 0]

\* struct.pack("Ns", s): s cut or zero-padded to N bytes
PackS(s, n) == IF Len(s) >= n THEN SubSeq(s, 1, n) ELSE s \o Zeros(n - Len(s))

\* struct.unpack big-endian "I"/"H" of a byte string, and struct.pack of the number
UnpackBE(bytes) ==
    LET RECURSIVE Go(_, _)
        Go(i, acc) == IF i > Len(bytes) THEN acc ELSE Go(i + 1, acc * 256 + bytes[i])
    IN  Go(1, 0)

PackLE(n, width) ==
    LET RECURSIVE Go(_, _, _)
        Go(k, v, acc) == IF k = 0 THEN acc ELSE Go(k - 1, v \div 256, acc \o <<v % 256>>)
    IN  Go(width, n, <<>>)

PackBE(n, width) ==
    LET RECURSIVE Go(_, _, _)
        Go(k, v, acc) == IF k = 0 THEN acc ELSE Go(k - 1, v \div 256, <<v % 256>> \o acc)
    IN  Go(width, n, <<>>)

HexDigits == <<"0", "1", "2", "3", "4", "5", "6", "7",
               "8", "9", "a", "b", "c", "d", "e", "f">>

\* ":".join(f"{b:02x}" for b in mac_bytes), as the sequence of its characters
RECURSIVE _mac_to_str(_)
_mac_to_str(mac_bytes) ==
    IF mac_bytes = <<>> THEN <<>>
    ELSE LET b == Head(mac_bytes)
             two == <<HexDigits[(b \div 16) + 1], HexDigits[(b % 16) + 1]>>
         IN  IF Len(mac_bytes) = 1 THEN two
             ELSE two \o <<":">> \o _mac_to_str(Tail(mac_bytes))

DecDigits == <<"0", "1", "2", "3", "4", "5", "6", "7", "8", "9">>

\* str(n) for a byte n
DecStr(n) ==
    IF n < 10 THEN <<DecDigits[n + 1]>>
    ELSE IF n < 100 THEN <<DecDigits[(n \div 10) + 1], DecDigits[(n % 10) + 1]>>
    ELSE <<DecDigits[(n \div 100) + 1], DecDigits[((n \div 10) % 10) + 1],
           DecDigits[(n % 10) + 1]>>

\* text.split("."): the fields of a string, as a sequence of strings
RECURSIVE SplitDots(_, _, _)
SplitDots(text, field, acc) ==
    IF text = <<>> THEN Append(acc, field)
    ELSE IF Head(text) = "." THEN SplitDots(Tail(text), <<>>, Append(acc, field))
    ELSE SplitDots(Tail(text), Append(field, Head(text)), acc)

IsDigit(c) == \E k \in 1..10 : DecDigits[k] = c
DigitVal(c) == (CHOOSE k \in 1..10 : DecDigits[k] = c) - 1

\* int(field) for a string of digits
RECURSIVE DecVal(_, _)
DecVal(field, acc) ==
    IF field = <<>> THEN acc ELSE DecVal(Tail(field), acc * 10 + DigitVal(Head(field)))

\* a decimal field of a dotted quad: one to three digits, at most 255
OctetOk(field) ==
    /\ Len(field) \in 1..3
    /\ \A i \in 1..Len(field) : IsDigit(field[i])
    /\ DecVal(field, 0) <= 255

Octets(text) ==
    LET fields == SplitDots(text, <<>>, <<>>)
    IN  [i \in 1..Len(fields) |-> DecVal(fields[i], 0)]

\* socket.inet_ntoa(packed): the four bytes in decimal, joined by "."
inet_ntoa(packed) ==
    DecStr(packed[1]) \o <<".">> \o DecStr(packed[2]) \o <<".">>
    \o DecStr(packed[3]) \o <<".">> \o DecStr(packed[4])

\* socket.inet_aton(text) of a dotted quad: its four fields as bytes
inet_aton(text) == Octets(text)

\* ipaddress.ip_address(text): a ValueError unless four decimal fields 0..255
ip_address_ok(text) ==
    LET fields == SplitDots(text, <<>>, <<>>)
    IN  Len(fields) = 4 /\ \A i \in 1..4 : OctetOk(fields[i])

\* the IPv4Address as its integer
ip_address(text) == UnpackBE(Octets(text))

\* str(IPv4Address)
ip_str(addr) == inet_ntoa(PackBE(addr, 4))

-----------------------------------------------------------------------------
(* Option codec *)

\* The index at which the while loop of parse_options next finds a code
\* other than 0 when it is at idx, len(raw) if there is none: each pass over
\* a 0 only adds one to idx
SkipPads(raw, idx) ==
    LET others == {j \in idx..(Len(raw) - 1) : raw[j + 1] # OPT_PAD}
    IN  IF others = {} THEN Len(raw)
        ELSE CHOOSE j \in others : \A k \in others : j <= k

\* parse_options: idx is Python's index, raw[idx] is raw[idx + 1] here
RECURSIVE ParseFrom(_, _, _)
ParseFrom(raw, idx, options) ==
    IF ~(idx < Len(raw)) THEN options
    ELSE LET code == raw[idx + 1] IN
         IF code = OPT_END THEN options
         ELSE IF code = OPT_PAD THEN ParseFrom(raw, SkipPads(raw, idx), options)
         ELSE IF idx + 1 >= Len(raw) THEN options
         ELSE LET length == raw[idx + 2]
                  value == PySlice(raw, idx + 2, idx + 2 + length)
              IN  ParseFrom(raw, idx + 2 + length, DictPut(options, code, value))

\* parse_options that keeps the first value of a repeated code
RECURSIVE ParseFirstWins(_, _, _)
ParseFirstWins(raw, idx, options) ==
    IF ~(idx < Len(raw)) THEN options
    ELSE LET code == raw[idx + 1] IN
         IF code = OPT_END THEN options
         ELSE IF code = OPT_PAD THEN ParseFirstWins(raw, SkipPads(raw, idx), options)
         ELSE IF idx + 1 >= Len(raw) THEN options
         ELSE LET length == raw[idx + 2]
                  value == PySlice(raw, idx + 2, idx + 2 + length)
              IN  ParseFirstWins(raw, idx + 2 + length,
                                 IF code \in DOMAIN options THEN options
                                 ELSE DictPut(options, code, value))

parse_options_first_wins(raw) == ParseFirstWins(raw, 0, EmptyDict)
parse_options(raw) == ParseFrom(raw, 0, EmptyDict)

\* build_options: options is a sequence of <<code, value>>, value None or <<bytes>>.
\* struct.pack("BB", ...) raises struct.error unless both numbers are 0..255.
RECURSIVE BuildParts(_)
BuildParts(options) ==
    IF options = <<>> THEN [ok |-> TRUE, bytes |-> <<OPT_END>>]
    ELSE LET code == Head(options)[1]
             value == Head(options)[2]
             rest == BuildParts(Tail(options))
         IN  IF value = None THEN rest
             ELSE IF ~(code \in 0..255 /\ Len(value[1]) \in 0..255)
                  THEN [ok |-> FALSE, bytes |-> <<>>]
             ELSE IF ~rest.ok THEN rest
             ELSE [ok |-> TRUE, bytes |-> <<code, Len(value[1])>> \o value[1] \o rest.bytes]

build_options(options) == BuildParts(options)

-----------------------------------------------------------------------------
(* Packet builder *)

build_reply(request, yiaddr, server_ip, options) ==
    LET htype == request[2]
        hlen == request[3]
        hops == request[4]
        xid == UnpackBE(SubSeq(request, 5, 8))
        secs == UnpackBE(SubSeq(request, 9, 10))
        flags == UnpackBE(SubSeq(request, 11, 12))
        ciaddr == PySlice(request, 12, 16)
        chaddr == PySlice(request, 28, 28 + 16)
        sname == Zeros(64)
        file_field == Zeros(128)
        pkt == <<BOOTREPLY, htype, hlen, hops>>
               \o PackBE(xid, 4) \o PackBE(secs, 2) \o PackBE(flags, 2)
               \o PackS(ciaddr, 4)
               \o PackS(inet_aton(ip_str(yiaddr)), 4)
               \o PackS(inet_aton(server_ip), 4)
               \o PackS(<<0, 0, 0, 0>>, 4)
               \o PackS(chaddr, 16)
               \o PackS(sname, 64)
               \o PackS(file_field, 128)
    IN  pkt \o MAGIC_COOKIE \o options

-----------------------------------------------------------------------------
(* Configuration handed to main() by load_config *)

ServerIp == inet_ntoa(<<10, 0, 0, 1>>)
SubnetMask == inet_aton(inet_ntoa(<<255, 255, 255, 0>>))
Router == inet_aton(inet_ntoa(<<10, 0, 0, 1>>))
Dns == inet_aton(inet_ntoa(<<10, 0, 0, 2>>))

\* LeaseManager.__init__: pool_start, pool_end as addresses
PoolStart == ip_address(inet_ntoa(<<10, 0, 0, 10>>))
PoolEnd == PoolStart + PoolSize - 1

-----------------------------------------------------------------------------
(* Lease pool *)

\* _iter_pool: the addresses from pool_start to pool_end, ascending
_iter_pool_descending == [i \in 1..(PoolEnd - PoolStart + 1) |-> PoolEnd - i + 1]
_iter_pool == [i \in 1..(PoolEnd - PoolStart + 1) |-> PoolStart + i - 1]

\* _is_available, with the time it reads
_is_available_inclusive(ls, ip_addr, now) ==
    \A m \in DOMAIN ls : ~(ls[m][1] = ip_addr /\ ls[m][2] >= now)
_is_available_flipped(ls, ip_addr, now) ==
    \A m \in DOMAIN ls : ~(ls[m][1] = ip_addr /\ ls[m][2] < now)
_is_available(ls, ip_addr, now) ==
    \A m \in DOMAIN ls : ~(ls[m][1] = ip_addr /\ ls[m][2] > now)

\* self.pool_start <= ip_addr <= self.pool_end
InPoolLowerOnly(ip_addr) == PoolStart <= ip_addr
InPoolUpperOnly(ip_addr) == ip_addr <= PoolEnd
InPoolExclusive(ip_addr) == PoolStart < ip_addr /\ ip_addr < PoolEnd
InPool(ip_addr) == PoolStart <= ip_addr /\ ip_addr <= PoolEnd

\* self.leases[mac] = (ip_addr, now + self.lease_time)
BindEvicting(ls, mac, ip_addr, now) ==
    DictPut([m \in {x \in DOMAIN ls : ls[x][1] # ip_addr} |-> ls[m]],
            mac, <<ip_addr, now + LeaseTime>>)
BindNothing(ls, mac, ip_addr, now) == ls
BindWithoutLeaseTime(ls, mac, ip_addr, now) == DictPut(ls, mac, <<ip_addr, now>>)
Bind(ls, mac, ip_addr, now) == DictPut(ls, mac, <<ip_addr, now + LeaseTime>>)

\* mac in self.leases, with an expiry later than now
HasActiveLeaseNever(ls, mac, now) == FALSE
HasActiveLease(ls, mac, now) == mac \in DOMAIN ls /\ ls[mac][2] > now

\* The early return of allocate for a mac whose lease has not expired.
\* Result of allocate: the address returned (None or <<ip>>), the lease
\* table, the clock reading made last and the return statement taken
\* ("lease": line 80, "requested": line 86, "scan": line 92, "none": line 93).
ExistingLeaseRenewed(ls, mac, now) ==
    [ip |-> <<ls[mac][1]>>, leases |-> Bind(ls, mac, ls[mac][1], now), clock |-> now,
     via |-> "lease"]
ExistingLease(ls, mac, now) ==
    [ip |-> <<ls[mac][1]>>, leases |-> ls, clock |-> now, via |-> "lease"]

\* The for loop of allocate over the addresses still to visit.  t is the
\* clock reading made last; every _is_available call reads the clock anew,
\* Head(ticks) later than the reading before it.
RECURSIVE ScanPool(_, _, _, _, _, _)
ScanPool(ls, mac, pool, now, t, ticks) ==
    IF pool = <<>> THEN [ip |-> None, leases |-> ls, clock |-> t, via |-> "none"]
    ELSE LET ip_addr == Head(pool)
             t2 == t + Head(ticks)
         IN  IF _is_available(ls, ip_addr, t2)
             THEN [ip |-> <<ip_addr>>, leases |-> Bind(ls, mac, ip_addr, now), clock |-> t2,
                   via |-> "scan"]
             ELSE ScanPool(ls, mac, Tail(pool), now, t2, Tail(ticks))

\* allocate(mac, requested_ip) entered when the clock reads now
allocate(ls, mac, requested_ip, now, ticks) ==
    IF HasActiveLease(ls, mac, now)
    THEN ExistingLease(ls, mac, now)
    ELSE LET parsed == requested_ip # None /\ ip_address_ok(requested_ip)
             inPool == parsed /\ InPool(ip_address(requested_ip))
             t1 == IF inPool THEN now + Head(ticks) ELSE now
             rest == IF inPool THEN Tail(ticks) ELSE ticks
         IN  IF inPool /\ _is_available(ls, ip_address(requested_ip), t1)
             THEN [ip |-> <<ip_address(requested_ip)>>,
                   leases |-> Bind(ls, mac, ip_address(requested_ip), now),
                   clock |-> t1, via |-> "requested"]
             ELSE ScanPool(ls, mac, _iter_pool, now, t1, rest)

-----------------------------------------------------------------------------
(* Receive loop of main(): what it reads from the datagram *)

\* reply_options of the OFFER / ACK
ReplyOptionsLeaseFirst(reply_type) ==
    build_options(<<
        <<OPT_MSG_TYPE, <<<<reply_type>>>>>>,
        <<OPT_LEASE_TIME, <<PackBE(LeaseTime, 4)>>>>,
        <<OPT_SERVER_ID, <<inet_aton(ServerIp)>>>>,
        <<OPT_SUBNET, <<SubnetMask>>>>,
        <<OPT_ROUTER, <<Router>>>>,
        <<OPT_DNS, <<Dns>>>>
    >>).bytes
ReplyOptions(reply_type) ==
    build_options(<<
        <<OPT_MSG_TYPE, <<<<reply_type>>>>>>,
        <<OPT_SERVER_ID, <<inet_aton(ServerIp)>>>>,
        <<OPT_LEASE_TIME, <<PackBE(LeaseTime, 4)>>>>,
        <<OPT_SUBNET, <<SubnetMask>>>>,
        <<OPT_ROUTER, <<Router>>>>,
        <<OPT_DNS, <<Dns>>>>
    >>).bytes

OfferOptions == ReplyOptions(DHCPOFFER)
AckOptions == ReplyOptions(DHCPACK)

\* The locals of one pass of the loop body; via is the return statement
\* by which allocate came back, "" when it was not called
Rec(ev, data, msg_type, mac, requested_ip, now, yiaddr, via) ==
    [ev |-> ev, data |-> data, msg_type |-> msg_type, mac |-> mac,
     requested_ip |-> requested_ip, now |-> now, yiaddr |-> yiaddr, via |-> via]

\* options.get(53, b"\x00")
MsgTypeDefaultDiscover(options) ==
    IF OPT_MSG_TYPE \in DOMAIN options THEN options[OPT_MSG_TYPE] ELSE <<DHCPDISCOVER>>
MsgType(options) ==
    IF OPT_MSG_TYPE \in DOMAIN options THEN options[OPT_MSG_TYPE] ELSE <<0>>

\* The part of the loop body that reads only the datagram: the length and
\* cookie test, the options, the message type, the client's mac and option 50.
\* accepted is FALSE where the body has hit a continue.
Classify(data) ==
    IF Len(data) < MIN_DATAGRAM
       \/ PySlice(data, COOKIE_OFFSET, MIN_DATAGRAM) # MAGIC_COOKIE
    THEN [data |-> data, accepted |-> FALSE, msg_type |-> <<>>, mac |-> <<>>,
          requested |-> <<>>]
    ELSE
    LET options == parse_options(PySlice(data, MIN_DATAGRAM, Len(data)))
        msg_type == MsgType(options)
        chaddr == PySlice(data, 28, 44)
        hlen == data[3]
    IN  IF msg_type = <<>>
        THEN [data |-> data, accepted |-> FALSE, msg_type |-> <<>>, mac |-> <<>>,
              requested |-> <<>>]
        ELSE [data |-> data, accepted |-> TRUE, msg_type |-> msg_type,
              mac |-> _mac_to_str(PySlice(chaddr, 0, hlen)),
              requested |-> IF OPT_REQUESTED \in DOMAIN options
                            THEN options[OPT_REQUESTED] ELSE <<>>]

-----------------------------------------------------------------------------
(* The datagrams clients send *)

Clients == 1..NumClients
ClientChaddr(i) == <<170, i>>
ClientMac(i) == _mac_to_str(ClientChaddr(i))
ClientXid(i) == 305419896 + i

\* A BOOTREQUEST of client i: fixed header, magic cookie, then the option bytes
Datagram(i, optionBytes) ==
    <<BOOTREQUEST, 1, Len(ClientChaddr(i)), 0>>
    \o PackBE(ClientXid(i), 4) \o PackBE(i, 2) \o PackBE(32768, 2)
    \o Zeros(16)
    \o PackS(ClientChaddr(i), 16)
    \o Zeros(64) \o Zeros(128)
    \o MAGIC_COOKIE \o optionBytes

\* Option 50 as a client writes it
Opt50(addr) == <<OPT_REQUESTED, 4>> \o inet_aton(ip_str(addr))

\* Addresses a client may ask for: the pool, one below it, one above it
RequestedAddrs == (PoolStart - 1)..(PoolEnd + 1)

Message(i, type, reqBytes) ==
    Datagram(i, <<OPT_MSG_TYPE, 1, type>> \o reqBytes \o <<OPT_END>>)

WellFormed ==
    {Message(i, DHCPREQUEST, Opt50(a)) : i \in Clients, a \in RequestedAddrs}
    \cup {Message(i, t, <<>>) :
            i \in Clients, t \in {DHCPDISCOVER, DHCPREQUEST, DHCPDECLINE, DHCPRELEASE}}

Malformed ==
    { SubSeq(Message(1, DHCPDISCOVER, <<>>), 1, MIN_DATAGRAM - 1),
      Datagram(1, <<>>),
      [Message(1, DHCPDISCOVER, <<>>) EXCEPT ![COOKIE_OFFSET + 1] = 0],
      Datagram(1, <<OPT_END>>),
      Datagram(1, <<OPT_MSG_TYPE, 0, OPT_END>>),
      Datagram(1, <<OPT_MSG_TYPE, 2, DHCPDISCOVER, 0, OPT_END>>),
      Message(1, DHCPOFFER, <<>>),
      Message(1, DHCPDISCOVER, Opt50(PoolEnd)),
      Message(1, DHCPREQUEST, <<OPT_REQUESTED, 0>>),
      Message(1, DHCPREQUEST, <<OPT_REQUESTED, 3, 10, 0, 0>>),
      Datagram(1, <<OPT_PAD, OPT_MSG_TYPE, 1, DHCPREQUEST, OPT_REQUESTED, 4, 10, 0>>) }

Datagrams == WellFormed \cup Malformed

\* The datagrams as the loop body sees them
Classified == {Classify(data) : data \in Datagrams}

-----------------------------------------------------------------------------
(* Receive loop of main(), from the message type on *)

\* build_reply(data, yiaddr, server_ip, reply_options) for every datagram,
\* every address allocate can be asked for and both reply types, evaluated once
Replies ==
    [c \in Classified, yiaddr \in RequestedAddrs |->
        [reply_type \in {DHCPOFFER, DHCPACK} |->
            build_reply(c.data, yiaddr, ServerIp,
                        IF reply_type = DHCPOFFER THEN OfferOptions ELSE AckOptions)]]

\* What the loop body does with a datagram that carries DHCPDECLINE or
\* DHCPRELEASE: it prints a line; the lease table is the one it found.
ReleaseLease(ls, mac) == [m \in (DOMAIN ls) \ {mac} |-> ls[m]]
IgnoreMessage(ls, mac) == ls

\* The outcome of one pass of the loop body
Outcome(ls, t, reply, up, rec, called) ==
    [leases |-> ls, clock |-> t, sent |-> reply, running |-> up,
     rec |-> rec, called |-> called]

\* DISCOVER and REQUEST from the allocate call on
Serve(c, ls, now, ticks, requested_ip, reply_type) ==
    LET a == allocate(ls, c.mac, requested_ip, now, ticks)
        rec == Rec("recv", c.data, c.msg_type, c.mac, requested_ip, now, a.ip, a.via)
    IN  IF a.ip = None
        THEN Outcome(a.leases, a.clock, <<>>, TRUE, rec, TRUE)
        ELSE Outcome(a.leases, a.clock,
                     <<Replies[c, a.ip[1]][reply_type]>>,
                     TRUE, rec, TRUE)

\* The loop body for a classified datagram c, entered when the clock reads now
Dispatch(c, ls, now, ticks) ==
    IF ~c.accepted
    THEN Outcome(ls, now, <<>>, TRUE, Rec("recv", c.data, <<>>, <<>>, None, now, None, ""), FALSE)
    ELSE IF c.msg_type = <<DHCPDISCOVER>>
    THEN Serve(c, ls, now, ticks, None, DHCPOFFER)
    ELSE IF c.msg_type = <<DHCPREQUEST>>
    THEN IF c.requested = <<>>
         THEN Serve(c, ls, now, ticks, None, DHCPACK)
         ELSE IF Len(c.requested) # 4
         THEN \* socket.inet_ntoa raises OSError, which nothing catches
              Outcome(ls, now, <<>>, FALSE,
                      Rec("raise", c.data, c.msg_type, c.mac, None, now, None, ""), FALSE)
         ELSE Serve(c, ls, now, ticks, inet_ntoa(c.requested), DHCPACK)
    ELSE IF c.msg_type = <<DHCPDECLINE>> \/ c.msg_type = <<DHCPRELEASE>>
    THEN Outcome(IgnoreMessage(ls, c.mac), now, <<>>, TRUE,
                 Rec("recv", c.data, c.msg_type, c.mac, None, now, None, ""), FALSE)
    ELSE Outcome(ls, now, <<>>, TRUE,
                 Rec("recv", c.data, c.msg_type, c.mac, None, now, None, ""), FALSE)

-----------------------------------------------------------------------------
(* Clock readings *)

\* Advances of the clock between successive readings inside one allocate:
\* the clock moves on by one tick before at most one of the readings
TickSeqs == {[i \in 1..(PoolSize + 1) |-> IF i = k THEN 1 ELSE 0] : k \in 0..(PoolSize + 1)}

-----------------------------------------------------------------------------
(* The server as a state machine *)

NoRec == Rec("idle", <<>>, <<>>, <<>>, None, 0, None, "")

\* The state the codec and packet-builder variables keep while the server runs
CodecIdle ==
    /\ oin = <<>> /\ owire = [ok |-> TRUE, bytes |-> <<>>]
    /\ oparsed = EmptyDict /\ ostage = "idle"
ReplyIdle == rin = <<>> /\ rout = <<>>

Init ==
    /\ leases = EmptyDict
    /\ clock = 0
    /\ last = NoRec
    /\ sent = <<>>
    /\ pc = "recv"
    /\ hist = <<>>
    /\ fresh = TRUE
    /\ offered = {}
    /\ CodecIdle
    /\ ReplyIdle

\* time passes while the loop waits in recvfrom
Tick ==
    /\ pc = "recv"
    /\ clock < MaxTime
    /\ clock' = clock + 1
    /\ UNCHANGED <<leases, last, sent, pc, hist, fresh, offered, codecVars, replyVars>>

HistMacs == {hist[k][1] : k \in 1..Len(hist)}

\* recvfrom returns data and the loop body runs to its end, or to the
\* exception that leaves it: r is what Dispatch made of the datagram
Handle(r) ==
    /\ r.clock <= MaxTime
    /\ leases' = r.leases
    /\ clock' = r.clock
    /\ last' = r.rec
    /\ sent' = r.sent
    /\ pc' = IF r.running THEN "handled" ELSE "raised"

\* One pass of the loop body; hist and fresh keep the record of the
\* allocate calls
Receive(c, ticks) ==
    /\ pc = "recv"
    /\ \E r \in {Dispatch(c, leases, clock, ticks)} :
        /\ Handle(r)
        /\ IF ~r.called THEN UNCHANGED <<hist, fresh>>
           ELSE IF fresh /\ r.rec.requested_ip = None /\ r.rec.mac \notin HistMacs
           THEN hist' = Append(hist, <<r.rec.mac, r.rec.yiaddr>>) /\ fresh' = TRUE
           ELSE hist' = <<>> /\ fresh' = FALSE
    /\ UNCHANGED <<offered, codecVars, replyVars>>

\* while True: back to recvfrom, the locals of the pass are dead
Loop ==
    /\ pc = "handled"
    /\ pc' = "recv"
    /\ last' = NoRec
    /\ sent' = <<>>
    /\ UNCHANGED <<leases, clock, hist, fresh, offered, codecVars, replyVars>>

Next ==
    \/ Tick
    \/ \E c \in Classified, ticks \in TickSeqs : Receive(c, ticks)
    \/ Loop

Spec == Init /\ [][Next]_vars

-----------------------------------------------------------------------------
(* The same server, watched from the side of one client, the first (the
   clients differ in their hardware address only): offered holds its mac
   from the time an OFFER is sent to it for the lease entry it has *)

Watched == {ClientMac(1)}

\* One pass of the loop body.  An OFFER that goes out to a watched client
\* puts its mac in offered; a new lease entry made for its REQUEST takes it out.
ReceiveWatched(c, ticks) ==
    /\ pc = "recv"
    /\ \E r \in {Dispatch(c, leases, clock, ticks)} :
        /\ Handle(r)
        /\ offered' = IF /\ r.rec.msg_type = <<DHCPDISCOVER>> /\ r.sent # <<>>
                         /\ r.rec.mac \in Watched
                      THEN offered \cup {r.rec.mac}
                      ELSE IF r.leases # leases
                      THEN offered \ {r.rec.mac}
                      ELSE offered
    /\ UNCHANGED <<hist, fresh, codecVars, replyVars>>

NextWatched ==
    \/ Tick
    \/ \E c \in Classified, ticks \in TickSeqs : ReceiveWatched(c, ticks)
    \/ Loop

SpecWatched == Init /\ [][NextWatched]_vars

-----------------------------------------------------------------------------
(* The option codec on its own: build_options of a list, then parse_options
   of what it built *)

OptCodes == {OPT_PAD, OPT_SUBNET, OPT_MSG_TYPE, 254, OPT_END}
OptValues ==
    {None} \cup {<<v>> : v \in {<<>>, <<0>>, <<255>>, <<53, 1>>, Zeros(255), Zeros(256)}}
OptionLists ==
    UNION {[1..n -> OptCodes \X OptValues] : n \in 0..MaxOpts}

ServerIdle ==
    /\ leases = EmptyDict /\ clock = 0 /\ last = NoRec /\ sent = <<>>
    /\ pc = "recv" /\ hist = <<>> /\ fresh = TRUE /\ offered = {}

InitCodec ==
    /\ ServerIdle
    /\ ReplyIdle
    /\ oin \in OptionLists
    /\ owire = [ok |-> TRUE, bytes |-> <<>>]
    /\ oparsed = EmptyDict
    /\ ostage = "input"

BuildStep ==
    /\ ostage = "input"
    /\ owire' = build_options(oin)
    /\ ostage' = IF build_options(oin).ok THEN "built" ELSE "raised"
    /\ UNCHANGED <<oin, oparsed, serverVars, replyVars>>

ParseStep ==
    /\ ostage = "built"
    /\ oparsed' = parse_options(owire.bytes)
    /\ ostage' = "parsed"
    /\ UNCHANGED <<oin, owire, serverVars, replyVars>>

NextCodec == BuildStep \/ ParseStep

SpecCodec == InitCodec /\ [][NextCodec]_vars

-----------------------------------------------------------------------------
(* The option parser on a buffer that ends inside an option: whole options,
   then one that is cut off *)

ShortCodes == {OPT_SUBNET, OPT_MSG_TYPE}
ShortValues == {<<>>, <<7>>, <<7, 8>>}
WholeOptions ==
    UNION {[1..n -> ShortCodes \X {<<v>> : v \in ShortValues}] : n \in 0..MaxOpts}

\* An option whose bytes stop after the code, after the length, or after
\* some of the value bytes the length announces
TruncatedOptions ==
    UNION {{<<code>>, <<code, 1>>, <<code, 4>>, <<code, 4, 10, 0>>} :
              code \in {OPT_REQUESTED, OPT_MSG_TYPE}}

\* the bytes of whole options on the wire: code, length, value, one after another
RECURSIVE Wire(_)
Wire(options) ==
    IF options = <<>> THEN <<>>
    ELSE <<Head(options)[1], Len(Head(options)[2][1])>> \o Head(options)[2][1]
         \o Wire(Tail(options))

InitParse ==
    /\ ServerIdle
    /\ ReplyIdle
    /\ oin \in WholeOptions
    /\ \E cut \in TruncatedOptions : owire = [ok |-> TRUE, bytes |-> Wire(oin) \o cut]
    /\ oparsed = EmptyDict
    /\ ostage = "raw"

ParseRaw ==
    /\ ostage = "raw"
    /\ oparsed' = parse_options(owire.bytes)
    /\ ostage' = "parsedraw"
    /\ UNCHANGED <<oin, owire, serverVars, replyVars>>

NextParse == ParseRaw

SpecParse == InitParse /\ [][NextParse]_vars

-----------------------------------------------------------------------------
(* The packet builder on its own: build_reply of a request *)

\* An IPv4 address as text, as the four bytes it packs to, and as an address
AddrChoices ==
    { [text |-> <<"1", "0", ".", "0", ".", "0", ".", "1">>,
       packed |-> <<10, 0, 0, 1>>, addr |-> 167772161],
      [text |-> <<"1", "0", ".", "0", ".", "0", ".", "1", "0">>,
       packed |-> <<10, 0, 0, 10>>, addr |-> 167772170],
      [text |-> <<"1", "9", "2", ".", "1", "6", "8", ".", "2", "5", "5", ".", "7">>,
       packed |-> <<192, 168, 255, 7>>, addr |-> 0],
      [text |-> <<"1", "2", "7", ".", "2", "5", "5", ".", "1", ".", "2", "5", "4">>,
       packed |-> <<127, 255, 1, 254>>, addr |-> 2147418622] }

\* Requests of 240 bytes and more.  Every field of the header is varied, the
\* fields build_reply must not copy (yiaddr, siaddr, giaddr, sname, file)
\* are non-zero, and the transaction id stays below 2^31.
RequestHeads ==
    {<<op, htype, hlen, hops>> \o xid \o secs \o flags :
        op \in {BOOTREQUEST, BOOTREPLY}, htype \in {1, 6}, hlen \in {6, 16},
        hops \in {0, 3}, xid \in {<<18, 52, 86, 120>>, <<127, 255, 0, 1>>},
        secs \in {<<0, 0>>, <<1, 2>>}, flags \in {<<128, 0>>, <<0, 0>>}}

RequestTails ==
    {ciaddr \o <<1, 2, 3, 4>> \o <<5, 6, 7, 8>> \o <<9, 10, 11, 12>>
     \o chaddr \o [i \in 1..192 |-> 7] \o MAGIC_COOKIE \o opts :
        ciaddr \in {<<0, 0, 0, 0>>, <<10, 0, 0, 5>>},
        chaddr \in {[i \in 1..16 |-> 160 + i], <<170, 187, 204, 0, 0, 1>> \o Zeros(10)},
        opts \in {<<>>, <<OPT_MSG_TYPE, 1, DHCPREQUEST, OPT_END>>}}

ReplyInputs ==
    {[request |-> h \o t, yiaddr |-> y, server_ip |-> srv, options |-> o] :
        h \in RequestHeads, t \in RequestTails,
        y \in {a \in AddrChoices : a.addr # 0}, srv \in AddrChoices,
        o \in {OfferOptions, <<OPT_END>>}}

InitReply ==
    /\ ServerIdle
    /\ CodecIdle
    /\ rin \in ReplyInputs
    /\ rout = <<>>

ReplyStep ==
    /\ rout = <<>>
    /\ rout' = <<build_reply(rin.request, rin.yiaddr.addr, rin.server_ip.text, rin.options)>>
    /\ UNCHANGED <<rin, serverVars, codecVars>>

NextReply == ReplyStep

SpecReply == InitReply /\ [][NextReply]_vars

-----------------------------------------------------------------------------
(* Vocabulary of the properties *)

PoolAddrs == PoolStart..PoolEnd

\* the hardware addresses whose lease on ip_addr has an expiry later than t
Holders(ls, ip_addr, t) == {m \in DOMAIN ls : ls[m][1] = ip_addr /\ ls[m][2] > t}

\* mac has a lease whose expiry is later than t
ActiveAt(ls, mac, t) == mac \in DOMAIN ls /\ ls[mac][2] > t

\* a step in which the loop body ran to its end
Handled == pc = "recv" /\ pc' = "handled"

\* the state at the end of a loop body that called allocate, and such a step:
\* the call was allocate(last'.mac, last'.requested_ip), entered when the
\* clock read `clock`, and it returned last'.yiaddr
Allocated ==
    pc = "handled" /\ last.msg_type \in {<<DHCPDISCOVER>>, <<DHCPREQUEST>>}
AllocCall == Handled /\ last'.msg_type \in {<<DHCPDISCOVER>>, <<DHCPREQUEST>>}

\* the address a requested_ip string names, None for no string
Requested(requested_ip) ==
    IF requested_ip = None THEN None ELSE <<UnpackBE(Octets(requested_ip))>>

-----------------------------------------------------------------------------
(* C1: in every reachable state, whatever datagrams were handled and however
   the clock advanced (also between the reading of allocate and the readings
   of _is_available), no address is held by two different hardware addresses
   whose lease entries both have an expiry later than the current time. *)
C1_OneActiveHolder ==
    \A m1 \in DOMAIN leases : \A m2 \in DOMAIN leases :
        (m1 # m2 /\ leases[m1][1] = leases[m2][1])
            => ~(leases[m1][2] > clock /\ leases[m2][2] > clock)

\* An allocate during which the clock moved on has bound its mac to an
\* address whose former holder's lease ran out between the two readings.
C1_Witness ==
    /\ Allocated /\ last.yiaddr # None /\ last.now < clock
    /\ leases[last.mac] = <<last.yiaddr[1], last.now + LeaseTime>>
    /\ \E m \in DOMAIN leases :
        /\ m # last.mac /\ leases[m][1] = last.yiaddr[1]
        /\ leases[m][2] > last.now /\ leases[m][2] <= clock

(* C2: in every reachable state the address of every lease entry, active or
   expired, lies in [pool_start, pool_end], whatever address was requested. *)
C2_LeasesInPool ==
    \A m \in DOMAIN leases : PoolStart <= leases[m][1] /\ leases[m][1] <= PoolEnd

\* A REQUEST for an address outside the pool was answered with an address.
C2_Witness ==
    /\ Allocated /\ last.requested_ip # None /\ last.yiaddr # None
    /\ Requested(last.requested_ip)[1] \notin PoolAddrs
    /\ leases[last.mac] = <<last.yiaddr[1], last.now + LeaseTime>>

(* C3: when mac has a lease entry whose expiry is in the future, allocate(mac, r)
   returns that entry's address for any r and leaves the lease table as it
   was (the expiry is not extended); and the table binds mac to whatever
   address an allocate returned, so a second allocate before the expiry
   returns the same address. *)
C3_ReofferUnchanged ==
    [][AllocCall =>
        /\ ActiveAt(leases, last'.mac, clock) =>
              /\ last'.yiaddr = <<leases[last'.mac][1]>>
              /\ leases' = leases
        /\ last'.yiaddr # None =>
              /\ last'.mac \in DOMAIN leases'
              /\ leases'[last'.mac][1] = last'.yiaddr[1]
      ]_vars

\* A REQUEST naming another address was answered from a lease made at an
\* earlier time, which still has its old expiry.
C3_Witness ==
    /\ Allocated /\ last.yiaddr # None /\ last.requested_ip # None
    /\ Requested(last.requested_ip) # last.yiaddr
    /\ leases[last.mac][1] = last.yiaddr[1]
    /\ leases[last.mac][2] > last.now
    /\ leases[last.mac][2] < last.now + LeaseTime

\* the lowest pool address with no holder whose lease is active at t, or None
LowestFree(ls, t) ==
    LET free == {a \in PoolAddrs : Holders(ls, a, t) = {}}
    IN  IF free = {} THEN None
        ELSE <<CHOOSE a \in free : \A b \in free : a <= b>>

\* the lease table after mac was bound to ip_addr by a call entered at t
Bound(ls, mac, ip_addr, t) ==
    [m \in (DOMAIN ls) \cup {mac} |->
        IF m = mac THEN <<ip_addr, t + LeaseTime>> ELSE ls[m]]

(* C4 as stated: for every hardware address mac and every address X inside
   the pool bounds that no lease entry with an expiry in the future holds,
   allocate(mac, X) returns X. *)
C4_AsStated ==
    [][(/\ AllocCall
        /\ last'.requested_ip # None
        /\ Requested(last'.requested_ip)[1] \in PoolAddrs
        /\ Holders(leases, Requested(last'.requested_ip)[1], clock) = {})
       => last'.yiaddr = Requested(last'.requested_ip)
      ]_vars

(* C4 as amended: for every hardware address mac that has no lease entry
   with an expiry in the future, and every address X inside the pool bounds
   that no lease entry with an expiry in the future holds, allocate(mac, X)
   returns X and binds mac to X until the time of the call plus the lease
   duration. *)
C4_RequestedHonored ==
    [][(/\ AllocCall
        /\ ~ActiveAt(leases, last'.mac, clock)
        /\ last'.requested_ip # None
        /\ Requested(last'.requested_ip)[1] \in PoolAddrs
        /\ Holders(leases, Requested(last'.requested_ip)[1], clock) = {})
       => /\ last'.yiaddr = Requested(last'.requested_ip)
          /\ leases' = Bound(leases, last'.mac, last'.yiaddr[1], clock)
      ]_vars

\* A requested address that the scan would not have chosen was granted:
\* the first address of the pool has never been leased.
C4_Witness ==
    /\ Allocated /\ last.requested_ip # None
    /\ last.yiaddr = Requested(last.requested_ip)
    /\ leases[last.mac] = <<last.yiaddr[1], last.now + LeaseTime>>
    /\ last.yiaddr[1] # PoolStart
    /\ \A m \in DOMAIN leases : leases[m][1] # PoolStart

(* C5 as stated: for every hardware address mac and every address Y outside
   the pool bounds, allocate(mac, Y) returns, and leaves the lease table, as
   the ascending scan would: the lowest pool address with no active holder
   (bound to mac), or none. *)
C5_AsStated ==
    [][(/\ AllocCall
        /\ last'.requested_ip # None
        /\ Requested(last'.requested_ip)[1] \notin PoolAddrs)
       => /\ last'.yiaddr = LowestFree(leases, clock)
          /\ leases' = IF last'.yiaddr = None THEN leases
                       ELSE Bound(leases, last'.mac, last'.yiaddr[1], clock)
      ]_vars

\* What an ascending scan entered at t and left at t2 has done: it returned
\* no address, every pool address having an active holder at t, and left the
\* table alone; or it returned X and bound mac to it, X having no active
\* holder at t2 and every lower pool address having one at t.  When the
\* clock stands still during the call (t2 = t) the address is LowestFree.
ScanResult(ls, ls2, t, t2, mac, yiaddr) ==
    IF yiaddr = None
    THEN /\ \A a \in PoolAddrs : Holders(ls, a, t) # {}
         /\ ls2 = ls
    ELSE /\ yiaddr[1] \in PoolAddrs
         /\ Holders(ls, yiaddr[1], t2) = {}
         /\ \A a \in PoolAddrs : a < yiaddr[1] => Holders(ls, a, t) # {}
         /\ t2 = t => yiaddr = LowestFree(ls, t)
         /\ ls2 = Bound(ls, mac, yiaddr[1], t)

(* C5 as amended: for every hardware address mac that has no lease entry
   with an expiry in the future, and every address Y outside the pool
   bounds, allocate(mac, Y) returns, and leaves the lease table, as the
   ascending scan does: the lowest pool address with no active holder when
   the scan looks at it (bound to mac), or none when every pool address has
   an active holder. *)
C5_OutsideFallsToScan ==
    [][(/\ AllocCall
        /\ ~ActiveAt(leases, last'.mac, clock)
        /\ last'.requested_ip # None
        /\ Requested(last'.requested_ip)[1] \notin PoolAddrs)
       => ScanResult(leases, leases', clock, clock', last'.mac, last'.yiaddr)
      ]_vars

\* A REQUEST for an address above the pool was answered with the second
\* address of the pool, the first having an active holder.
C5_Witness ==
    /\ Allocated /\ last.requested_ip # None
    /\ Requested(last.requested_ip)[1] > PoolEnd
    /\ last.yiaddr = <<PoolStart + 1>>
    /\ leases[last.mac] = <<PoolStart + 1, last.now + LeaseTime>>
    /\ Holders(leases, PoolStart, clock) # {}

(* C6: on a fresh pool of N addresses, when distinct hardware addresses call
   allocate with no requested address one after another and no lease has
   expired, the k-th call returns pool_start + k - 1 for k <= N (N distinct
   addresses in ascending order) and every later call returns none. *)
C6_Exhaustion ==
    (/\ fresh
     /\ \A m \in DOMAIN leases : leases[m][2] > clock)
    => \A k \in 1..Len(hist) :
          hist[k][2] = IF k <= PoolEnd - PoolStart + 1
                       THEN <<PoolStart + k - 1>> ELSE None

\* One more hardware address than the pool has addresses has called
\* allocate: the pool was handed out in order and the last call got none.
C6_Witness ==
    /\ fresh
    /\ \A m \in DOMAIN leases : leases[m][2] > clock
    /\ Len(hist) = PoolEnd - PoolStart + 2
    /\ Cardinality({hist[k][1] : k \in 1..Len(hist)}) = Len(hist)
    /\ hist[Len(hist)][2] = None
    /\ {leases[m][1] : m \in DOMAIN leases} = PoolAddrs

(* C7: a lease entry whose expiry is not in the future never blocks its
   address.  When mac A's entry on address X has an expiry at or before the
   current time and no other entry on X is active, an allocate by another
   hardware address B that has no active lease returns X and binds B to X
   if it asks for X, and also if the scan runs (no address asked for, one
   outside the pool, or one with an active holder) while every pool address
   below X has an active holder; A's stale entry stays in the table. *)
C7_StaleDoesNotBlock ==
    [][(AllocCall /\ ~ActiveAt(leases, last'.mac, clock)) =>
        \A X \in PoolAddrs :
          (/\ \E A \in (DOMAIN leases) \ {last'.mac} :
                  leases[A][1] = X /\ leases[A][2] <= clock
           /\ Holders(leases, X, clock) = {}
           /\ \/ last'.requested_ip # None /\ Requested(last'.requested_ip) = <<X>>
              \/ /\ \A a \in PoolAddrs : a < X => Holders(leases, a, clock') # {}
                 /\ \/ last'.requested_ip = None
                    \/ /\ last'.requested_ip # None
                       /\ \/ Requested(last'.requested_ip)[1] \notin PoolAddrs
                          \/ Holders(leases, Requested(last'.requested_ip)[1], clock') # {})
          => /\ last'.yiaddr = <<X>>
             /\ leases'[last'.mac] = <<X, clock + LeaseTime>>
             /\ \A A \in (DOMAIN leases) \ {last'.mac} :
                    A \in DOMAIN leases' /\ leases'[A] = leases[A]
      ]_vars

\* B asked for an address, not the first of the pool, on which A's lease ran
\* out at the very time of the call, and got it; A's entry is still there.
C7_Witness ==
    /\ Allocated /\ last.requested_ip # None
    /\ last.yiaddr = Requested(last.requested_ip)
    /\ last.yiaddr[1] # PoolStart
    /\ leases[last.mac] = <<last.yiaddr[1], last.now + LeaseTime>>
    /\ \E A \in (DOMAIN leases) \ {last.mac} :
          leases[A] = <<last.yiaddr[1], last.now>>

(* C10: handling a DECLINE or RELEASE datagram leaves the lease table
   unchanged and sends no reply; and no step of the server changes a lease
   entry before its expiry or binds another hardware address to its address
   before then, so the sender's lease stays active until its original
   expiry and its address is not handed to anyone else before it. *)
C10_DeclineReleaseIgnored ==
    [][/\ (Handled /\ last'.msg_type \in {<<DHCPDECLINE>>, <<DHCPRELEASE>>})
            => leases' = leases /\ sent' = <<>> /\ clock' = clock
       /\ \A m \in DOMAIN leases :
            leases[m][2] > clock' =>
              /\ m \in DOMAIN leases' /\ leases'[m] = leases[m]
              /\ \A m2 \in (DOMAIN leases') \ {m} :
                    (m2 \notin DOMAIN leases \/ leases'[m2] # leases[m2])
                        => leases'[m2][1] # leases[m][1]
      ]_vars

\* A RELEASE from a client whose lease is active has been handled: the
\* lease is still in the table, active, and nothing was sent.
C10_Witness ==
    /\ pc = "handled" /\ last.msg_type = <<DHCPRELEASE>>
    /\ ActiveAt(leases, last.mac, clock)
    /\ sent = <<>>

-----------------------------------------------------------------------------
(* Properties of the option codec *)

IsPresent(option) == option[2] # None
NoTerminator(list) == \A i \in 1..Len(list) : list[i][1] # OPT_END

\* the (code, value) entries of a list whose value is not absent, and those
\* of a parsed mapping
ListEntries(list) ==
    {<<list[i][1], list[i][2][1]>> : i \in {j \in 1..Len(list) : IsPresent(list[j])}}
DictEntries(d) == {<<k, d[k]>> : k \in DOMAIN d}

(* C8 as stated: for any ordered list of (code, value) options without the
   terminator code 255, build_options followed by parse_options yields
   exactly the code-to-value entries of the list (absent values excluded),
   for all codes 0..254 and all value lengths. *)
C8_AsStated ==
    NoTerminator(oin) =>
        /\ ostage # "raised"
        /\ ostage = "parsed" => DictEntries(oparsed) = ListEntries(oin)

\* the options of a list that build_options can write and parse_options reads
\* back: code 1..254, and a value, if present, of at most 255 bytes
Encodable(list) ==
    \A i \in 1..Len(list) :
        /\ list[i][1] \in 1..254
        /\ IsPresent(list[i]) => Len(list[i][2][1]) <= 255

\* the index of the last entry of the list with this code and a value
LastOf(list, code) ==
    CHOOSE i \in 1..Len(list) :
        /\ list[i][1] = code /\ IsPresent(list[i])
        /\ \A j \in (i + 1)..Len(list) : ~(list[j][1] = code /\ IsPresent(list[j]))

(* C8 as amended: for any ordered list of (code, value) options with codes
   1..254 and values of at most 255 bytes (the empty value included),
   build_options raises nothing and parse_options of its output maps exactly
   the codes of the list's entries with a value, each to the value of the
   last such entry with that code. *)
C8_RoundTrip ==
    Encodable(oin) =>
        /\ ostage # "raised"
        /\ ostage = "parsed" =>
              /\ DOMAIN oparsed = {e[1] : e \in ListEntries(oin)}
              /\ \A code \in DOMAIN oparsed :
                    oparsed[code] = oin[LastOf(oin, code)][2][1]

\* Two options with different codes, one with an empty value and one whose
\* value is the byte 255, have been built and parsed back.
C8_Witness ==
    /\ ostage = "parsed" /\ Encodable(oin) /\ Len(oin) = 2
    /\ oin[1][1] # oin[2][1]
    /\ oin[1][2] = <<<<>>>> /\ oin[2][2] = <<<<255>>>>
    /\ Cardinality(DOMAIN oparsed) = 2

-----------------------------------------------------------------------------
(* Properties of the packet builder *)

(* C9: for every request of at least 240 bytes, the reply of build_reply has
   op 2, the request's htype, hlen, hops, xid, secs, flags, ciaddr and
   16-byte chaddr, the assigned address as yiaddr, the server address as
   siaddr, a zero giaddr, zero sname and file, the magic cookie at offset
   236 and then the option bytes. *)
C9_ReplyLayout ==
    (rout # <<>> /\ Len(rin.request) >= 240) =>
        LET request == rin.request
            reply == rout[1]
        IN  /\ Len(reply) = 240 + Len(rin.options)
            /\ reply[1] = 2
            /\ SubSeq(reply, 2, 12) = SubSeq(request, 2, 12)
            /\ SubSeq(reply, 13, 16) = SubSeq(request, 13, 16)
            /\ SubSeq(reply, 17, 20) = rin.yiaddr.packed
            /\ SubSeq(reply, 21, 24) = rin.server_ip.packed
            /\ SubSeq(reply, 25, 28) = <<0, 0, 0, 0>>
            /\ SubSeq(reply, 29, 44) = SubSeq(request, 29, 44)
            /\ \A i \in 45..236 : reply[i] = 0
            /\ SubSeq(reply, 237, 240) = <<99, 130, 83, 99>>
            /\ SubSeq(reply, 241, Len(reply)) = rin.options

\* A reply to a request with xid 0x12345678, a full 16-byte chaddr, option
\* bytes after the cookie and a non-zero ciaddr has been built.
C9_Witness ==
    /\ rout # <<>>
    /\ Len(rin.request) > 240
    /\ rin.request[1] = 1
    /\ SubSeq(rin.request, 5, 8) = <<18, 52, 86, 120>>
    /\ SubSeq(rout[1], 5, 8) = <<18, 52, 86, 120>>
    /\ rin.request[44] # 0 /\ rin.request[13] # 0
    /\ Len(rin.options) > 1

-----------------------------------------------------------------------------
(* Properties of the receive loop *)

\* a step in which recvfrom returned and the loop body ran, to its end or to
\* an exception
Received == pc = "recv" /\ pc' # "recv"

\* the options a datagram of at least 240 bytes carries after the cookie
OptionsOf(data) == parse_options(SubSeq(data, 241, Len(data)))

\* The datagrams the server has no answer for: too short, a wrong cookie,
\* no option 53 or an empty one, or a message type other than 1, 3, 4, 7
Unanswerable(data) ==
    \/ Len(data) < 240
    \/ SubSeq(data, 237, 240) # <<99, 130, 83, 99>>
    \/ 53 \notin DOMAIN OptionsOf(data)
    \/ OptionsOf(data)[53] = <<>>
    \/ OptionsOf(data)[53] \notin {<<1>>, <<3>>, <<4>>, <<7>>}

UnanswerableDatagrams == {data \in Datagrams : Unanswerable(data)}

(* C11: a datagram that is shorter than 240 bytes, or whose bytes 236..239
   are not the magic cookie, or whose option 53 is absent or empty, or whose
   message type is none of 1, 3, 4, 7, produces no reply and leaves the
   lease table unchanged; the loop body runs to its end. *)
C11_Dropped ==
    [][(Received /\ last'.data \in UnanswerableDatagrams)
       => sent' = <<>> /\ leases' = leases /\ pc' = "handled"
      ]_vars

\* A datagram with the cookie and a one-byte option 53 that is none of
\* 1, 3, 4, 7 came from a client whose lease is active; nothing was sent.
C11_Witness ==
    /\ pc = "handled" /\ last.data \in UnanswerableDatagrams
    /\ Len(last.data) >= 240
    /\ 53 \in DOMAIN OptionsOf(last.data)
    /\ Len(OptionsOf(last.data)[53]) = 1
    /\ \E m \in DOMAIN leases :
          /\ leases[m][2] > clock
          /\ SubSeq(last.data, 29, 30) = ClientChaddr(1) /\ m = ClientMac(1)
    /\ sent = <<>>

(* C12 as stated: when every pool address has an active holder (until the
   handling ends), a DISCOVER or REQUEST from a hardware address without an
   active lease produces no reply of any kind and leaves the lease table
   unchanged, and the loop body runs to its end, so that the server goes on
   to the next datagram. *)
C12_AsStated ==
    [][(/\ Received
        /\ last'.msg_type \in {<<1>>, <<3>>}
        /\ \A a \in PoolAddrs : Holders(leases, a, clock') # {}
        /\ ~ActiveAt(leases, last'.mac, clock))
       => sent' = <<>> /\ leases' = leases /\ pc' = "handled"
      ]_vars

\* the option 50 of a datagram, None when it has none
Option50(data) ==
    IF 50 \in DOMAIN OptionsOf(data) THEN <<OptionsOf(data)[50]>> ELSE None

(* C13 as stated: a REQUEST whose option 50 is not a valid address (not four
   bytes long) is handled exactly as one without option 50: no error, no
   requested address given to allocate, the sender's active lease returned
   and the table left alone, or else the result of the pool scan. *)
C13_AsStated ==
    [][(/\ Received
        /\ last'.msg_type = <<3>>
        /\ Option50(last'.data) # None
        /\ Len(Option50(last'.data)[1]) # 4)
       => /\ pc' = "handled"
          /\ last'.requested_ip = None
          /\ IF ActiveAt(leases, last'.mac, clock)
             THEN last'.yiaddr = <<leases[last'.mac][1]>> /\ leases' = leases
             ELSE ScanResult(leases, leases', clock, clock', last'.mac, last'.yiaddr)
      ]_vars

(* C18 as stated: for every inbound datagram, whatever its length, header
   fields and option bytes, the dispatcher finishes handling it without
   aborting and returns to waiting for the next datagram: no exception ever
   leaves the loop. *)
C18_NeverAborts == pc # "raised"

(* C15: when mac has no active lease and no requested address is honored
   (allocate reaches its pool scan), allocate returns the lowest pool address
   that has no active holder and binds mac to it with expiry = now + lease
   duration, now being the time read on entry; it returns none, leaving the
   table alone, if and only if every pool address has an active holder.
   An address has an active holder or not at the time _is_available reads
   when it checks it: the address returned has none when the call ends, the
   addresses below it have one when the call starts, and when the clock does
   not advance during the call the address is the lowest one without an
   active holder at that time. *)
C15_ScanLowestFree ==
    [][(AllocCall /\ last'.via \in {"scan", "none"})
       => /\ ~ActiveAt(leases, last'.mac, clock)
          /\ ScanResult(leases, leases', clock, clock', last'.mac, last'.yiaddr)
          /\ (last'.via = "none") <=> (last'.yiaddr = None)
          /\ (\A a \in PoolAddrs : Holders(leases, a, clock') # {})
                => last'.yiaddr = None
          /\ last'.yiaddr # None
                => leases'[last'.mac] = <<last'.yiaddr[1], clock + LeaseTime>>
      ]_vars

\* A REQUEST for a pool address that has an active holder was answered, by
\* the scan, with another address; the sender is bound to it for a full
\* lease time from the time of the call.
C15_Witness ==
    /\ Allocated /\ last.via = "scan"
    /\ last.requested_ip # None
    /\ Requested(last.requested_ip)[1] \in PoolAddrs
    /\ Requested(last.requested_ip) # last.yiaddr
    /\ Holders(leases, Requested(last.requested_ip)[1], clock) # {}
    /\ leases[last.mac] = <<last.yiaddr[1], last.now + LeaseTime>>

\* the option bytes of a reply of the given type, as the clients read them
ExpectedOptions(type) ==
    <<53, 1, type>>
    \o <<54, 4>> \o inet_aton(ServerIp)
    \o <<51, 4>> \o PackBE(LeaseTime, 4)
    \o <<1, 4>> \o SubnetMask
    \o <<3, 4>> \o Router
    \o <<6, 4>> \o Dns
    \o <<255>>

(* C16: every reply the dispatcher sends is an OFFER (option 53 = 2) to a
   DISCOVER or an ACK (option 53 = 5) to a REQUEST; a reply is sent exactly
   when allocate was called and returned an address, at most one for a
   datagram; its yiaddr is the address allocate returned, its chaddr the
   sender's; and its options are 53, 54, 51, 1, 3, 6 in this order followed
   by the terminator. *)
C16_Replies ==
    [][Received =>
        /\ Len(sent') <= 1
        /\ (sent' # <<>>) <=> (last'.via # "" /\ last'.yiaddr # None)
        /\ sent' # <<>> =>
              /\ last'.msg_type \in {<<1>>, <<3>>}
              /\ SubSeq(sent'[1], 17, 20) = PackBE(last'.yiaddr[1], 4)
              /\ SubSeq(sent'[1], 29, 44) = SubSeq(last'.data, 29, 44)
              /\ SubSeq(sent'[1], 241, Len(sent'[1])) =
                    ExpectedOptions(IF last'.msg_type = <<1>> THEN 2 ELSE 5)
      ]_vars

\* An ACK went out for a REQUEST that asked for another address than the
\* one allocate returned: the reply carries the returned one.
C16_Witness ==
    /\ pc = "handled" /\ last.msg_type = <<3>> /\ sent # <<>>
    /\ sent[1][243] = 5
    /\ last.requested_ip # None
    /\ Requested(last.requested_ip) # last.yiaddr
    /\ SubSeq(sent[1], 17, 20) = PackBE(last.yiaddr[1], 4)

(* C17: datagrams are processed one at a time.  The lease table changes
   and replies are sent only within the handling of one datagram, which
   runs from recvfrom to the end of the loop body in one piece; a datagram
   is taken up only when the handling of the one before is complete; and
   when a reply carrying address X goes out to hardware address M, the
   lease table already binds M to X. *)
C17_OneAtATime ==
    [][/\ (leases' # leases \/ (sent' # sent /\ sent' # <<>>)) => Received
       /\ Received => (last = NoRec /\ sent = <<>>)
       /\ (Received /\ sent' # <<>>) =>
              /\ last'.mac \in DOMAIN leases'
              /\ last'.mac = _mac_to_str(SubSeq(sent'[1], 29, 28 + sent'[1][3]))
              /\ PackBE(leases'[last'.mac][1], 4) = SubSeq(sent'[1], 17, 20)
              /\ leases'[last'.mac][2] > last'.now
      ]_vars

\* A reply went out to a second client while the first one's lease is in
\* the table; the binding it announces was made in this very handling.
C17_Witness ==
    /\ pc = "handled" /\ sent # <<>>
    /\ Cardinality(DOMAIN leases) >= 2
    /\ leases[last.mac] = <<last.yiaddr[1], last.now + LeaseTime>>
    /\ PackBE(leases[last.mac][1], 4) = SubSeq(sent[1], 17, 20)

(* C19: allocate(mac, r) changes at most the lease entry of mac: the
   entries of all other hardware addresses stay as they are, no entry is
   deleted (stale ones included), no entry but mac's is added, and when
   allocate returns none the whole lease table is unchanged. *)
C19_AllocateFrame ==
    [][AllocCall =>
        /\ \A m \in (DOMAIN leases) \ {last'.mac} :
              m \in DOMAIN leases' /\ leases'[m] = leases[m]
        /\ DOMAIN leases \subseteq DOMAIN leases'
        /\ DOMAIN leases' \subseteq (DOMAIN leases) \cup {last'.mac}
        /\ last'.yiaddr = None => leases' = leases
      ]_vars

\* The scan gave a third hardware address the address on which another
\* one's lease had run out; all three entries are in the table.
C19_Witness ==
    /\ Allocated /\ last.via = "scan" /\ last.yiaddr # None
    /\ Cardinality(DOMAIN leases) = 3
    /\ \E A \in (DOMAIN leases) \ {last.mac} :
          leases[A][1] = last.yiaddr[1] /\ leases[A][2] <= last.now

(* C20: if a (watched) client was sent an OFFER of address X for its
   DISCOVER and the server handles a REQUEST of that client before the lease
   the OFFER announced expires, the server answers with an ACK of X, whatever address
   the REQUEST's option 50 carries (none, X, another pool address, free or
   not, or one outside the pool) and whatever datagrams were handled in
   between; the lease is the one announced, with its expiry. *)
C20_AckAfterOffer ==
    [][(/\ Received
        /\ last'.msg_type = <<3>>
        /\ Option50(last'.data) # None => Len(Option50(last'.data)[1]) = 4
        /\ last'.mac \in offered
        /\ leases[last'.mac][2] > clock)
       => /\ sent' # <<>>
          /\ sent'[1][243] = 5
          /\ SubSeq(sent'[1], 17, 20) = PackBE(leases[last'.mac][1], 4)
          /\ SubSeq(sent'[1], 29, 44) = SubSeq(last'.data, 29, 44)
          /\ leases' = leases
      ]_vars

\* A client that had been sent an OFFER asked, in its REQUEST, for another
\* pool address, on which another client's lease has run out, and was sent
\* an ACK of the address offered.
C20_Witness ==
    /\ pc = "handled" /\ last.msg_type = <<3>> /\ sent # <<>>
    /\ last.mac \in offered
    /\ last.requested_ip # None
    /\ Requested(last.requested_ip)[1] \in PoolAddrs
    /\ Requested(last.requested_ip) # last.yiaddr
    /\ Holders(leases, Requested(last.requested_ip)[1], last.now) = {}
    /\ SubSeq(sent[1], 17, 20) = PackBE(leases[last.mac][1], 4)
    /\ \E B \in (DOMAIN leases) \ {last.mac} :
          leases[B][1] = Requested(last.requested_ip)[1]

-----------------------------------------------------------------------------
(* Properties of the option parser on cut buffers *)

(* C14 as stated: when the option buffer ends before the length byte of an
   option, or before all the value bytes its length announces, parse_options
   returns the mapping of the options that precede the cut one (each code
   with the value of its last whole option); the cut option adds nothing. *)
C14_AsStated ==
    ostage = "parsedraw" =>
        /\ DOMAIN oparsed = {e[1] : e \in ListEntries(oin)}
        /\ \A code \in DOMAIN oparsed :
              oparsed[code] = oin[LastOf(oin, code)][2][1]

====
